---- MODULE Spec2Model ----
(***************************************************************************)
(* Task manager: task store, project membership store and reminder sweep.  *)
(*                                                                         *)
(* The store is the PostgreSQL schema of bootstrapStatements.  The task    *)
(* handlers are those of controllers/task.controller.ts (scoped by         *)
(* tasks.user_id), the project handlers those of the project controller,   *)
(* the membership helpers those of lib/projectAccess.                      *)
(*                                                                         *)
(* NULL is 0; every id and every timestamp is a positive integer.          *)
(* Time is counted in ticks of 1/HOUR hours.                               *)
(***************************************************************************)
EXTENDS Integers, Sequences, FiniteSets, TLC

\* ---- bounds ----
NumUsers == 2
MaxTasks == 1
MaxProjects == 2
NumTitles == 1
NumConns == 1
MaxNow == 3
NumSweeps == 2
MaxSends == 2
SweepTasks == 1
NumSeedUsers == 1
NumHandlers == 2
PassTasks == 2
MaxFailures == 1

NULL == 0
Absent == -1

Users == 1..NumUsers
TaskIds == 1..MaxTasks
SweepTaskIds == 1..SweepTasks
ProjectIds == 1..MaxProjects
Titles == 1..NumTitles
Conns == 1..NumConns
Sweeps == 1..NumSweeps
SeedUsers == 1..NumSeedUsers
Handlers == 1..NumHandlers
PassTaskIds == 1..PassTasks

\* TASK_STATUS_VALUES
TASK_STATUS_VALUES == {"TODO", "IN_PROGRESS", "DONE"}

VARIABLES
  tasks,          \* table tasks: live task id -> row
  nextTaskId,     \* ids handed out so far + 1 (gen_random_uuid never repeats)
  projects,       \* table projects (committed rows): live project id -> row
  nextProjectId,
  members,        \* table project_members (committed rows), in created_at order
  conn,           \* handlers that are between two awaits
  last,           \* the response of the handler that finished last
  now,            \* Date.now() and NOW()
  emailEnabled,   \* isEmailEnabled(): transporter !== null
  sweeps,         \* the calls of runTaskReminderSweep that have not returned
  sent,           \* task id -> number of reminder mails the transport accepted
  bounced,        \* task ids with a reminder mail the transport refused
  lost,           \* task ids whose mail was accepted and whose stamp write threw
  edited,         \* task ids whose due_date an update has changed after a sweep took them
  server,         \* where start() of the server process is
  schedulerStarted,
  schedulerHandle, \* the interval timer: NULL, or the time it fires next
  registered,     \* table users: the emails of the rows register has inserted
  failed,         \* the passes whose candidate query threw: their windowStart
  raced           \* task ids whose due_date an update has changed between a send and the stamp
                  \* that follows it, until the next send for them

sweepVars == <<now, emailEnabled, sweeps, sent, bounced, lost>>

schedVars == <<server, schedulerStarted, schedulerHandle>>

extraVars == <<registered, failed, raced>>

vars == <<tasks, nextTaskId, projects, nextProjectId, members, conn, last, sweepVars, edited, schedVars, extraVars>>

\* ---- rows ----
NumDueDates == 2
NumDescriptions == 1
MaxPatchKeys == 1

\* the timestamps are counted in ticks, HOUR ticks to the hour
HOUR == 2
LOOKAHEAD_MS == 12 * HOUR
WINDOW_MS == HOUR

Descriptions == 1..NumDescriptions
DueDates == (LOOKAHEAD_MS + 2)..(LOOKAHEAD_MS + 1 + NumDueDates)

\* TaskRow, with the columns the later ALTER TABLE statements add
TaskRow(title, description, status, user_id, due_date) ==
  [title |-> title, description |-> description, status |-> status,
   user_id |-> user_id, due_date |-> due_date,
   project_id |-> NULL, assignee_id |-> NULL,
   completed_at |-> NULL, reminder_sent_at |-> NULL]

NoBody == [id |-> NULL, title |-> NULL, description |-> NULL, status |-> "", dueDate |-> NULL]

mapTask(id, row) ==
  [id |-> id, title |-> row.title, description |-> row.description,
   status |-> row.status, dueDate |-> row.due_date]

\* what a finished handler was asked (op, user, id, arg) and what it answered
Response(op, user, id, arg, code, body) ==
  [op |-> op, user |-> user, id |-> id, arg |-> arg, code |-> code, body |-> body]

\* ---- request bodies ----
\* A body gives each key a value or leaves it out (Absent / "ABSENT").
Bodies ==
  [title : Titles \cup {Absent},
   description : Descriptions \cup {Absent},
   status : TASK_STATUS_VALUES \cup {"ABSENT"},
   dueDate : DueDates \cup {NULL, Absent},
   projectId : ProjectIds \cup {Absent},
   assigneeId : Users \cup {NULL, Absent}]

KeysOf(body) ==
  {k \in {"title", "description", "dueDate", "projectId", "assigneeId"} : body[k] # Absent}
    \cup (IF body.status # "ABSENT" THEN {"status"} ELSE {})

\* z.object strips the keys the schema does not name
baseTaskSchema(body) ==
  [title |-> body.title, description |-> body.description,
   status |-> body.status, dueDate |-> body.dueDate]

ParsedKeys(payload) ==
  {k \in {"title", "description", "dueDate"} : payload[k] # Absent}
    \cup (IF payload.status # "ABSENT" THEN {"status"} ELSE {})

\* createTaskSchema: title and description are required
createTaskSchema(body) ==
  IF body.title = Absent \/ body.description = Absent
    THEN [ok |-> FALSE, payload |-> baseTaskSchema(body)]
    ELSE [ok |-> TRUE, payload |-> baseTaskSchema(body)]

\* updateTaskSchema: every key optional, refined to at least one key
updateTaskSchema(body) ==
  LET payload == baseTaskSchema(body)
  IN  [ok |-> ParsedKeys(payload) # {}, payload |-> payload]

CreateBodies == {b \in Bodies : b.title # Absent /\ b.description # Absent
                                 /\ Cardinality(KeysOf(b)) <= 2 + MaxPatchKeys}
PatchBodies == {b \in Bodies : Cardinality(KeysOf(b)) <= MaxPatchKeys}

\* ---- task handlers ----
NoTask == TaskRow(NULL, NULL, "", NULL, NULL)

findTaskById(id, userId) ==
  IF id \in DOMAIN tasks /\ tasks[id].user_id = userId THEN tasks[id] ELSE NoTask

\* getTask with a lookup by id alone and a 403 for the task of another user
getTaskForbidden(id, userId) ==
  IF id \notin DOMAIN tasks
    THEN [code |-> 404, message |-> "Task not found", body |-> NoBody]
  ELSE IF tasks[id].user_id # userId
    THEN [code |-> 403, message |-> "Forbidden", body |-> NoBody]
  ELSE [code |-> 200, message |-> "", body |-> mapTask(id, tasks[id])]

getTask(id, userId) ==
  LET task == findTaskById(id, userId)
  IN  IF task = NoTask
        THEN [code |-> 404, message |-> "Task not found", body |-> NoBody]
        ELSE [code |-> 200, message |-> "", body |-> mapTask(id, task)]

\* ---- listTasks ----
\* req.query: status, search and a projectId that listTasksQuerySchema does not name
ListQueries ==
  [status : TASK_STATUS_VALUES \cup {"ABSENT"},
   search : Titles \cup {Absent},
   projectId : ProjectIds \cup {Absent}]

\* z.object strips the keys the schema does not name
listTasksQuerySchema(query) == [status |-> query.status, search |-> query.search]

\* title ILIKE pattern OR description ILIKE pattern: a text is one word, and a
\* pattern matches the text made of its word
ILIKE(row, search) == row.title = search \/ row.description = search

\* the rows of the SELECT (ORDER BY left out) and the response made of them
listTasks(query, userId) ==
  LET parsed == listTasksQuerySchema(query)
      rows == {id \in DOMAIN tasks :
                 /\ tasks[id].user_id = userId
                 /\ parsed.status # "ABSENT" => tasks[id].status = parsed.status
                 /\ parsed.search # Absent => ILIKE(tasks[id], parsed.search)}
  IN  [code |-> 200, rows |-> rows, data |-> {mapTask(id, tasks[id]) : id \in rows}]

createTask(body, userId) ==
  LET parsed == createTaskSchema(body)
      payload == parsed.payload
      row == TaskRow(payload.title, payload.description,
                     IF payload.status = "ABSENT" THEN "TODO" ELSE payload.status,
                     userId,
                     IF payload.dueDate \in {Absent, NULL} THEN NULL ELSE payload.dueDate)
  IN  IF ~parsed.ok
        THEN [code |-> 400, tasks |-> tasks, id |-> NULL]
        ELSE [code |-> 201, tasks |-> tasks @@ (nextTaskId :> row), id |-> nextTaskId]

updateTask(id, body, userId) ==
  LET parsed == updateTaskSchema(body)
      payload == parsed.payload
      old == tasks[id]
      new == [old EXCEPT
                !.title = IF payload.title # Absent THEN payload.title ELSE @,
                !.description = IF payload.description # Absent THEN payload.description ELSE @,
                !.status = IF payload.status # "ABSENT" THEN payload.status ELSE @,
                !.due_date = IF payload.dueDate # Absent THEN payload.dueDate ELSE @]
  IN  IF ~parsed.ok
        THEN [code |-> 400, tasks |-> tasks]
      ELSE IF ~(id \in DOMAIN tasks /\ tasks[id].user_id = userId)
        THEN [code |-> 404, tasks |-> tasks]
      ELSE [code |-> 200, tasks |-> [tasks EXCEPT ![id] = new]]

\* DELETE FROM tasks WHERE id = $1, without the user_id condition
deleteTaskAnyUser(id, userId) ==
  IF id \in DOMAIN tasks
    THEN [code |-> 204, tasks |-> [i \in DOMAIN tasks \ {id} |-> tasks[i]]]
    ELSE [code |-> 404, tasks |-> tasks]

deleteTask(id, userId) ==
  IF id \in DOMAIN tasks /\ tasks[id].user_id = userId
    THEN [code |-> 204, tasks |-> [i \in DOMAIN tasks \ {id} |-> tasks[i]]]
    ELSE [code |-> 404, tasks |-> tasks]


Range(seq) == {seq[i] : i \in 1..Len(seq)}

\* ---- lib/projectAccess ----
normalizeRole(role) == IF role = "owner" THEN "owner" ELSE "member"

MemberRow(projectId, userId, role) ==
  [project_id |-> projectId, user_id |-> userId, role |-> role]

NoMembership == MemberRow(NULL, NULL, "")

MemberIndexes(projectId, userId) ==
  {i \in 1..Len(members) :
     members[i].project_id = projectId /\ members[i].user_id = userId}

ensureProjectExists(projectId) == projectId \in DOMAIN projects

findProjectMembership(projectId, userId) ==
  IF MemberIndexes(projectId, userId) = {}
    THEN NoMembership
    ELSE LET row == members[CHOOSE i \in MemberIndexes(projectId, userId) : TRUE]
         IN  MemberRow(row.project_id, row.user_id, normalizeRole(row.role))

\* requireProjectMember without its call of ensureProjectExists
requireProjectMemberUnchecked(projectId, userId) ==
  IF findProjectMembership(projectId, userId) = NoMembership
    THEN [code |-> 403, membership |-> NoMembership]
  ELSE [code |-> 200, membership |-> findProjectMembership(projectId, userId)]

requireProjectMember(projectId, userId) ==
  IF ~ensureProjectExists(projectId)
    THEN [code |-> 404, membership |-> NoMembership]
  ELSE IF findProjectMembership(projectId, userId) = NoMembership
    THEN [code |-> 403, membership |-> NoMembership]
  ELSE [code |-> 200, membership |-> findProjectMembership(projectId, userId)]

requireProjectOwner(projectId, userId) ==
  LET member == requireProjectMember(projectId, userId)
  IN  IF member.code # 200 THEN member
      ELSE IF member.membership.role # "owner"
        THEN [code |-> 403, membership |-> NoMembership]
      ELSE member

\* ---- project handlers ----
\* an email address is the number of the account it belongs to;
\* NumUsers + 1 is an address without an account
Emails == 1..(NumUsers + 1)

findUserByEmail(email) == IF email \in Users \cup registered THEN email ELSE NULL

RECURSIVE Without(_, _)
\* the rows of a table (a sequence) that are not among the dropped ones
Without(seq, dropped) ==
  IF seq = <<>> THEN <<>>
  ELSE IF Head(seq) \in dropped THEN Without(Tail(seq), dropped)
  ELSE <<Head(seq)>> \o Without(Tail(seq), dropped)

\* addProjectMember with an INSERT that has no ON CONFLICT DO NOTHING
addProjectMemberAgain(projectId, email, userId) ==
  LET owner == requireProjectOwner(projectId, userId)
      targetUser == findUserByEmail(email)
  IN  IF owner.code # 200 THEN [code |-> owner.code, members |-> members]
      ELSE IF targetUser = NULL THEN [code |-> 404, members |-> members]
      ELSE IF targetUser = userId THEN [code |-> 400, members |-> members]
      ELSE [code |-> 201,
            members |-> Append(members, MemberRow(projectId, targetUser, "member"))]

addProjectMember(projectId, email, userId) ==
  LET owner == requireProjectOwner(projectId, userId)
      targetUser == findUserByEmail(email)
  IN  IF owner.code # 200 THEN [code |-> owner.code, members |-> members]
      ELSE IF targetUser = NULL THEN [code |-> 404, members |-> members]
      ELSE IF targetUser = userId THEN [code |-> 400, members |-> members]
      ELSE IF MemberIndexes(projectId, targetUser) # {}
        THEN [code |-> 409, members |-> members]
      ELSE [code |-> 201,
            members |-> Append(members, MemberRow(projectId, targetUser, "member"))]

activeAssignments(projectId, memberId) ==
  Cardinality({id \in DOMAIN tasks :
                 /\ tasks[id].project_id = projectId
                 /\ tasks[id].assignee_id = memberId
                 /\ tasks[id].status # "DONE"})

\* removeProjectMember without the check of its lines 527-529
removeProjectMemberSelf(projectId, memberId, userId) ==
  LET owner == requireProjectOwner(projectId, userId)
  IN  IF owner.code # 200 THEN [code |-> owner.code, members |-> members]
      ELSE IF MemberIndexes(projectId, memberId) = {}
        THEN [code |-> 404, members |-> members]
      ELSE IF activeAssignments(projectId, memberId) > 0
        THEN [code |-> 409, members |-> members]
      ELSE [code |-> 204,
            members |-> Without(members, {m \in Range(members) :
                                             m.project_id = projectId /\ m.user_id = memberId})]

\* removeProjectMember without the check of its lines 540-547
removeProjectMemberOpen(projectId, memberId, userId) ==
  LET owner == requireProjectOwner(projectId, userId)
  IN  IF owner.code # 200 THEN [code |-> owner.code, members |-> members]
      ELSE IF memberId = owner.membership.user_id
        THEN [code |-> 400, members |-> members]
      ELSE IF MemberIndexes(projectId, memberId) = {}
        THEN [code |-> 404, members |-> members]
      ELSE [code |-> 204,
            members |-> Without(members, {m \in Range(members) :
                                             m.project_id = projectId /\ m.user_id = memberId})]

removeProjectMember(projectId, memberId, userId) ==
  LET owner == requireProjectOwner(projectId, userId)
  IN  IF owner.code # 200 THEN [code |-> owner.code, members |-> members]
      ELSE IF memberId = owner.membership.user_id
        THEN [code |-> 400, members |-> members]
      ELSE IF MemberIndexes(projectId, memberId) = {}
        THEN [code |-> 404, members |-> members]
      ELSE IF activeAssignments(projectId, memberId) > 0
        THEN [code |-> 409, members |-> members]
      ELSE [code |-> 204,
            members |-> Without(members, {m \in Range(members) :
                                             m.project_id = projectId /\ m.user_id = memberId})]

\* deleteProject with a tasks.project_id that has no ON DELETE CASCADE
deleteProjectKeepTasks(projectId, userId) ==
  LET owner == requireProjectOwner(projectId, userId)
  IN  IF owner.code # 200
        THEN [code |-> owner.code, projects |-> projects, members |-> members, tasks |-> tasks]
        ELSE [code |-> 204,
              projects |-> [p \in DOMAIN projects \ {projectId} |-> projects[p]],
              members |-> Without(members, {m \in Range(members) : m.project_id = projectId}),
              tasks |-> tasks]

\* DELETE FROM projects, with the ON DELETE CASCADE of project_members.project_id
\* and tasks.project_id
deleteProject(projectId, userId) ==
  LET owner == requireProjectOwner(projectId, userId)
  IN  IF owner.code # 200
        THEN [code |-> owner.code, projects |-> projects, members |-> members, tasks |-> tasks]
        ELSE [code |-> 204,
              projects |-> [p \in DOMAIN projects \ {projectId} |-> projects[p]],
              members |-> Without(members, {m \in Range(members) : m.project_id = projectId}),
              tasks |-> [id \in {i \in DOMAIN tasks : tasks[i].project_id # projectId}
                           |-> tasks[id]]]

\* ---- the store before the first request ----
\* The tasks table outlives the process.  No statement of the handlers writes
\* assignee_id, so the rows the sweep and removeProjectMember look for are rows
\* the table already holds: at most one, not yet attached to a project.
SeedRows ==
  {[TaskRow(1, 1, "TODO", u, NULL) EXCEPT !.assignee_id = a] : u \in SeedUsers, a \in Users}

IdleConn == [op |-> "idle", pc |-> "", user |-> NULL, project |-> NULL, arg |-> NULL]

NoResponse == Response("", NULL, NULL, NULL, 0, NoBody)

IdleSweep == [pc |-> "idle", rows |-> <<>>, windowStart |-> NULL]

StoreInit(seeds) ==
  /\ tasks \in UNION {[1..n -> SeedRows] : n \in seeds}
  /\ nextTaskId = Cardinality(DOMAIN tasks) + 1
  /\ projects = <<>>
  /\ nextProjectId = 1
  /\ members = <<>>
  /\ conn = [c \in Handlers |-> IdleConn]
  /\ last = NoResponse
  /\ now = 1
  /\ sweeps = [s \in Sweeps |-> IdleSweep]
  /\ sent = [id \in TaskIds \cup SweepTaskIds \cup PassTaskIds |-> 0]
  /\ bounced = {}
  /\ lost = {}
  /\ edited = {}
  /\ schedulerStarted = FALSE
  /\ schedulerHandle = NULL
  /\ registered = {}
  /\ failed = {}
  /\ raced = {}

\* ---- requests on /api/tasks ----
GetTask(userId, id) ==
  /\ LET r == getTask(id, userId)
     IN  last' = Response("get", userId, id, NULL, r.code, r.body)
  /\ UNCHANGED <<tasks, nextTaskId, projects, nextProjectId, members, conn, sweepVars, edited, schedVars, extraVars>>

CreateTask(userId, body) ==
  /\ nextTaskId <= MaxTasks
  /\ tasks' = createTask(body, userId).tasks
  /\ nextTaskId' = nextTaskId + 1
  /\ last' = Response("create", userId, nextTaskId, NULL, createTask(body, userId).code, NoBody)
  /\ UNCHANGED <<projects, nextProjectId, members, conn, sweepVars, edited, schedVars, extraVars>>

\* a sweep has selected the task
Taken(id) ==
  \/ sent[id] > 0
  \/ id \in bounced
  \/ \E s \in Sweeps : \E i \in DOMAIN sweeps[s].rows : sweeps[s].rows[i].id = id

UpdateTask(userId, id, body) ==
  /\ LET r == updateTask(id, body, userId)
     IN  /\ tasks' = r.tasks
         /\ last' = Response("update", userId, id, NULL, r.code, NoBody)
         /\ edited' = IF /\ r.code = 200
                          /\ Taken(id)
                          /\ r.tasks[id].due_date # tasks[id].due_date
                       THEN edited \cup {id} ELSE edited
         /\ raced' = IF /\ r.code = 200
                         /\ r.tasks[id].due_date # tasks[id].due_date
                         /\ \E s \in Sweeps : /\ sweeps[s].pc = "stamp"
                                              /\ Head(sweeps[s].rows).id = id
                      THEN raced \cup {id} ELSE raced
  /\ UNCHANGED <<nextTaskId, projects, nextProjectId, members, conn, sweepVars, schedVars,
                 registered, failed>>

DeleteTask(userId, id) ==
  /\ LET r == deleteTask(id, userId)
     IN  /\ tasks' = r.tasks
         /\ last' = Response("delete", userId, id, NULL, r.code, NoBody)
  /\ UNCHANGED <<nextTaskId, projects, nextProjectId, members, conn, sweepVars, edited, schedVars, extraVars>>

\* ---- requests on /api/projects ----
AddProjectMember(userId, projectId, email) ==
  /\ LET r == addProjectMember(projectId, email, userId)
     IN  /\ members' = r.members
         /\ last' = Response("addMember", userId, projectId, email, r.code, NoBody)
  /\ UNCHANGED <<tasks, nextTaskId, projects, nextProjectId, conn, sweepVars, edited, schedVars, extraVars>>

RemoveProjectMember(userId, projectId, memberId) ==
  /\ LET r == removeProjectMember(projectId, memberId, userId)
     IN  /\ members' = r.members
         /\ last' = Response("removeMember", userId, projectId, memberId, r.code, NoBody)
  /\ UNCHANGED <<tasks, nextTaskId, projects, nextProjectId, conn, sweepVars, edited, schedVars, extraVars>>

DeleteProject(userId, projectId) ==
  /\ LET r == deleteProject(projectId, userId)
     IN  /\ projects' = r.projects
         /\ members' = r.members
         /\ tasks' = r.tasks
         /\ last' = Response("deleteProject", userId, projectId, NULL, r.code, NoBody)
  /\ UNCHANGED <<nextTaskId, nextProjectId, conn, sweepVars, edited, schedVars, extraVars>>

\* ---- createProject and createPersonalProject: one transaction ----
\* what the transaction commits: the project row and the owner's membership row
ProjectCommit(projs, mems, projectId, userId) ==
  [projects |-> projs @@ (projectId :> [owner_id |-> userId]),
   members |-> Append(mems, MemberRow(projectId, userId, "owner"))]

\* the handler when no statement throws and no other request runs meanwhile
createProject(userId) ==
  LET done == ProjectCommit(projects, members, nextProjectId, userId)
  IN  [code |-> 201, projects |-> done.projects, members |-> done.members]

CreateProject(userId) ==
  /\ nextProjectId <= MaxProjects
  /\ projects' = createProject(userId).projects
  /\ members' = createProject(userId).members
  /\ nextProjectId' = nextProjectId + 1
  /\ last' = Response("createProject", userId, nextProjectId, NULL,
                      createProject(userId).code, NoBody)
  /\ UNCHANGED <<tasks, nextTaskId, conn, sweepVars, edited, schedVars, extraVars>>

\* ---- listProjects: ensureProjectBaselineForUser, then the list ----
\* SELECT project_id FROM project_members WHERE user_id = $1
\* ORDER BY created_at ASC LIMIT 1
Anchor(mems, userId) ==
  LET mine == {i \in 1..Len(mems) : mems[i].user_id = userId}
  IN  IF mine = {} THEN NULL
      ELSE mems[CHOOSE i \in mine : \A j \in mine : i <= j].project_id

Legacy(userId) ==
  {id \in DOMAIN tasks : tasks[id].user_id = userId /\ tasks[id].project_id = NULL}

\* UPDATE tasks SET project_id = $1 WHERE user_id = $2 AND project_id IS NULL;
\* tasks.project_id REFERENCES projects(id)
AttachLegacy(projs, anchorProjectId, userId) ==
  IF Legacy(userId) # {} /\ anchorProjectId \notin DOMAIN projs
    THEN [code |-> 500, tasks |-> tasks]
    ELSE [code |-> 200,
          tasks |-> [id \in DOMAIN tasks |->
                       IF id \in Legacy(userId)
                         THEN [tasks[id] EXCEPT !.project_id = anchorProjectId]
                         ELSE tasks[id]]]

\* the function when no statement throws and no other request runs meanwhile
ensureProjectBaselineForUser(userId) ==
  LET found == Anchor(members, userId)
      done == IF found = NULL
                THEN ProjectCommit(projects, members, nextProjectId, userId)
                ELSE [projects |-> projects, members |-> members]
      anchorProjectId == IF found = NULL THEN nextProjectId ELSE found
  IN  [anchorProjectId |-> anchorProjectId, created |-> found = NULL,
       projects |-> done.projects, members |-> done.members,
       tasks |-> AttachLegacy(done.projects, anchorProjectId, userId).tasks]

ListProjects(userId) ==
  LET base == ensureProjectBaselineForUser(userId)
  IN  /\ base.created => nextProjectId <= MaxProjects
      /\ projects' = base.projects
      /\ members' = base.members
      /\ tasks' = base.tasks
      /\ nextProjectId' = IF base.created THEN nextProjectId + 1 ELSE nextProjectId
      /\ last' = Response("listProjects", userId, base.anchorProjectId, NULL, 200, NoBody)
      /\ UNCHANGED <<nextTaskId, conn, sweepVars, edited, schedVars, extraVars>>

Requests ==
  \/ \E u \in Users, id \in TaskIds : GetTask(u, id)
  \/ \E u \in Users, b \in CreateBodies : CreateTask(u, b)
  \/ \E u \in Users, id \in TaskIds, b \in PatchBodies : UpdateTask(u, id, b)
  \/ \E u \in Users, id \in TaskIds : DeleteTask(u, id)
  \/ \E u \in Users, p \in ProjectIds, e \in Emails : AddProjectMember(u, p, e)
  \/ \E u \in Users, p \in ProjectIds, m \in Users : RemoveProjectMember(u, p, m)
  \/ \E u \in Users, p \in ProjectIds : DeleteProject(u, p)
  \/ \E u \in Users : CreateProject(u)
  \/ \E u \in Users : ListProjects(u)

\* SMTP unset: runTaskReminderSweep returns at once, the store serves requests only
Init == StoreInit(0..MaxTasks) /\ emailEnabled = FALSE /\ server = "listening"

Next == Requests

Spec == Init /\ [][Next]_vars

\* REMINDER_QUERY without its condition t.status <> 'DONE'
REMINDER_QUERYAnyStatus(windowStart, windowEnd) ==
  {id \in DOMAIN tasks :
     /\ tasks[id].assignee_id \in Users
     /\ tasks[id].project_id \in DOMAIN projects
     /\ tasks[id].assignee_id # NULL
     /\ tasks[id].due_date # NULL
     /\ tasks[id].reminder_sent_at = NULL
     /\ tasks[id].completed_at = NULL
     /\ tasks[id].due_date >= windowStart /\ tasks[id].due_date <= windowEnd}

\* ---- jobs/taskReminder: runTaskReminderSweep ----
\* REMINDER_QUERY: the ids of the rows it returns
REMINDER_QUERY(windowStart, windowEnd) ==
  {id \in DOMAIN tasks :
     /\ tasks[id].assignee_id \in Users
     /\ tasks[id].project_id \in DOMAIN projects
     /\ tasks[id].assignee_id # NULL
     /\ tasks[id].due_date # NULL
     /\ tasks[id].reminder_sent_at = NULL
     /\ tasks[id].completed_at = NULL
     /\ tasks[id].status # "DONE"
     /\ tasks[id].due_date >= windowStart /\ tasks[id].due_date <= windowEnd}

\* ReminderCandidate
Candidate(id) ==
  [id |-> id, due_date |-> tasks[id].due_date, assignee_email |-> tasks[id].assignee_id]

\* the query has no ORDER BY: the rows come in any order
Orderings(ids) ==
  {order \in [1..Cardinality(ids) -> ids] :
     \A i, j \in 1..Cardinality(ids) : i # j => order[i] # order[j]}

\* the call up to the rows of the candidate query
SweepQuery(s) ==
  /\ sweeps[s] = IdleSweep
  /\ emailEnabled
  /\ \E order \in Orderings(REMINDER_QUERY(now + LOOKAHEAD_MS, now + LOOKAHEAD_MS + WINDOW_MS)) :
       sweeps' = [sweeps EXCEPT ![s] =
                    [pc |-> "loop", rows |-> [i \in DOMAIN order |-> Candidate(order[i])],
                     windowStart |-> now + LOOKAHEAD_MS]]

\* a call of runTaskReminderSweep with the transport configured
RunTaskReminderSweep(s) ==
  /\ SweepQuery(s)
  /\ UNCHANGED <<tasks, nextTaskId, projects, nextProjectId, members, conn, last,
                 now, emailEnabled, sent, bounced, lost, edited, schedVars, extraVars>>

\* await sendEmail(...) resolves
SweepSend(s) ==
  /\ sweeps[s].pc = "loop" /\ sweeps[s].rows # <<>>
  /\ sent[Head(sweeps[s].rows).id] < MaxSends
  /\ sent' = [sent EXCEPT ![Head(sweeps[s].rows).id] = @ + 1]
  /\ sweeps' = [sweeps EXCEPT ![s].pc = "stamp"]
  /\ raced' = raced \ {Head(sweeps[s].rows).id}
  /\ UNCHANGED <<tasks, nextTaskId, projects, nextProjectId, members, conn, last,
                 now, emailEnabled, bounced, lost, edited, schedVars, registered, failed>>

\* await sendEmail(...) throws, with the try of lines 110-116 left out: the
\* catch of line 118 ends the pass
SweepSendThrowsAborts(s) ==
  /\ sweeps[s].pc = "loop" /\ sweeps[s].rows # <<>>
  /\ bounced' = bounced \cup {Head(sweeps[s].rows).id}
  /\ sweeps' = [sweeps EXCEPT ![s].rows = <<>>]
  /\ UNCHANGED <<tasks, nextTaskId, projects, nextProjectId, members, conn, last,
                 now, emailEnabled, sent, lost, edited, schedVars, extraVars>>

\* await sendEmail(...) throws: logged, next candidate
SweepSendThrows(s) ==
  /\ sweeps[s].pc = "loop" /\ sweeps[s].rows # <<>>
  /\ bounced' = bounced \cup {Head(sweeps[s].rows).id}
  /\ sweeps' = [sweeps EXCEPT ![s].rows = Tail(@)]
  /\ UNCHANGED <<tasks, nextTaskId, projects, nextProjectId, members, conn, last,
                 now, emailEnabled, sent, lost, edited, schedVars, extraVars>>

\* the UPDATE left out
StampNothing(id) == tasks

\* UPDATE tasks SET reminder_sent_at = NOW() WHERE id = $1
Stamp(id) ==
  [i \in DOMAIN tasks |->
     IF i = id THEN [tasks[i] EXCEPT !.reminder_sent_at = now] ELSE tasks[i]]

SweepStamp(s) ==
  /\ sweeps[s].pc = "stamp"
  /\ tasks' = Stamp(Head(sweeps[s].rows).id)
  /\ sweeps' = [sweeps EXCEPT ![s].pc = "loop", ![s].rows = Tail(@)]
  /\ UNCHANGED <<nextTaskId, projects, nextProjectId, members, conn, last,
                 now, emailEnabled, sent, bounced, lost, edited, schedVars, extraVars>>

\* the UPDATE throws: logged, next candidate
SweepStampThrows(s) ==
  /\ sweeps[s].pc = "stamp"
  /\ lost' = lost \cup {Head(sweeps[s].rows).id}
  /\ sweeps' = [sweeps EXCEPT ![s].pc = "loop", ![s].rows = Tail(@)]
  /\ UNCHANGED <<tasks, nextTaskId, projects, nextProjectId, members, conn, last,
                 now, emailEnabled, sent, bounced, edited, schedVars, extraVars>>

\* the loop is over
SweepReturn(s) ==
  /\ sweeps[s].pc = "loop" /\ sweeps[s].rows = <<>>
  /\ sweeps' = [sweeps EXCEPT ![s] = IdleSweep]
  /\ UNCHANGED <<tasks, nextTaskId, projects, nextProjectId, members, conn, last,
                 now, emailEnabled, sent, bounced, lost, edited, schedVars, extraVars>>

\* half an hour passes
Tick ==
  /\ now < MaxNow
  /\ now' = now + 1
  /\ UNCHANGED <<tasks, nextTaskId, projects, nextProjectId, members, conn, last,
                 emailEnabled, sweeps, sent, bounced, lost, edited, schedVars, extraVars>>

SweepSteps ==
  \/ \E s \in Sweeps : SweepSend(s)
  \/ \E s \in Sweeps : SweepSendThrows(s)
  \/ \E s \in Sweeps : SweepStamp(s)
  \/ \E s \in Sweeps : SweepStampThrows(s)
  \/ \E s \in Sweeps : SweepReturn(s)
  \/ Tick

\* the requests that change what the sweep reads
SweepPatches ==
  {b \in Bodies : KeysOf(b) \in {{"dueDate"}, {"status"}}}

SweepRequests ==
  \/ \E u \in SeedUsers : ListProjects(u)
  \/ \E u \in SeedUsers, id \in SweepTaskIds, b \in SweepPatches : UpdateTask(u, id, b)
  \/ \E u \in SeedUsers, id \in SweepTaskIds : DeleteTask(u, id)

SweepInit == StoreInit({SweepTasks}) /\ emailEnabled \in BOOLEAN /\ server = "listening"

\* passes may overlap
SweepNext ==
  \/ \E s \in Sweeps : RunTaskReminderSweep(s)
  \/ SweepSteps
  \/ SweepRequests

SpecSweep == SweepInit /\ [][SweepNext]_vars

\* one pass at a time: a call starts when the call before it has returned
SeqNext ==
  \/ \E s \in Sweeps : (\A r \in Sweeps : sweeps[r] = IdleSweep) /\ RunTaskReminderSweep(s)
  \/ SweepSteps
  \/ SweepRequests

SpecSeq == SweepInit /\ [][SeqNext]_vars

\* ---- the transaction of createProject and createPersonalProject, statement by statement ----
\* A handler that has awaited is in conn.  The rows its transaction has inserted
\* stay in conn until COMMIT writes them to the tables; ROLLBACK drops them.

\* createProject: db.connect(), BEGIN
CreateProjectBegin(c, userId) ==
  /\ conn[c] = IdleConn
  /\ conn' = [conn EXCEPT ![c] = [op |-> "createProject", pc |-> "begun",
                                  user |-> userId, project |-> NULL, arg |-> NULL]]
  /\ UNCHANGED <<tasks, nextTaskId, projects, nextProjectId, members, last, sweepVars, edited, schedVars, extraVars>>

\* ensureProjectBaselineForUser: the SELECT of the anchor; without one,
\* createPersonalProject: db.connect(), BEGIN
ListProjectsBegin(c, userId) ==
  /\ conn[c] = IdleConn
  /\ conn' = [conn EXCEPT ![c] =
                IF Anchor(members, userId) = NULL
                  THEN [op |-> "listProjects", pc |-> "begun",
                        user |-> userId, project |-> NULL, arg |-> NULL]
                  ELSE [op |-> "listProjects", pc |-> "anchored",
                        user |-> userId, project |-> Anchor(members, userId), arg |-> NULL]]
  /\ UNCHANGED <<tasks, nextTaskId, projects, nextProjectId, members, last, sweepVars, edited, schedVars, extraVars>>

\* the INSERT outside the transaction: the row is in the table at once
TxInsertProjectAutocommit(c) ==
  /\ conn[c].pc = "begun"
  /\ nextProjectId <= MaxProjects
  /\ conn' = [conn EXCEPT ![c].pc = "project", ![c].project = nextProjectId]
  /\ nextProjectId' = nextProjectId + 1
  /\ projects' = projects @@ (nextProjectId :> [owner_id |-> conn[c].user])
  /\ UNCHANGED <<tasks, nextTaskId, members, last, sweepVars, edited, schedVars, extraVars>>

\* INSERT INTO projects ... RETURNING id
TxInsertProject(c) ==
  /\ conn[c].pc = "begun"
  /\ nextProjectId <= MaxProjects
  /\ conn' = [conn EXCEPT ![c].pc = "project", ![c].project = nextProjectId]
  /\ nextProjectId' = nextProjectId + 1
  /\ UNCHANGED <<tasks, nextTaskId, projects, members, last, sweepVars, edited, schedVars, extraVars>>

\* INSERT INTO project_members ... 'owner'
TxInsertMember(c) ==
  /\ conn[c].pc = "project"
  /\ conn' = [conn EXCEPT ![c].pc = "member"]
  /\ UNCHANGED <<tasks, nextTaskId, projects, nextProjectId, members, last, sweepVars, edited, schedVars, extraVars>>

\* COMMIT; createProject answers 201, createPersonalProject returns the id
TxCommit(c) ==
  /\ conn[c].pc = "member"
  /\ projects' = ProjectCommit(projects, members, conn[c].project, conn[c].user).projects
  /\ members' = ProjectCommit(projects, members, conn[c].project, conn[c].user).members
  /\ IF conn[c].op = "createProject"
       THEN /\ conn' = [conn EXCEPT ![c] = IdleConn]
            /\ last' = Response("createProject", conn[c].user, conn[c].project, NULL, 201, NoBody)
       ELSE /\ conn' = [conn EXCEPT ![c].pc = "anchored"]
            /\ last' = last
  /\ UNCHANGED <<tasks, nextTaskId, nextProjectId, sweepVars, edited, schedVars, extraVars>>

\* a statement of the transaction throws: catch, ROLLBACK, throw error
TxRollback(c) ==
  /\ conn[c].pc \in {"begun", "project", "member"}
  /\ conn' = [conn EXCEPT ![c] = IdleConn]
  /\ last' = Response(conn[c].op, conn[c].user, conn[c].project, NULL, 500, NoBody)
  /\ UNCHANGED <<tasks, nextTaskId, projects, nextProjectId, members, sweepVars, edited, schedVars, extraVars>>

\* ensureProjectBaselineForUser: the UPDATE of the legacy tasks; then the list
ListProjectsEnd(c) ==
  /\ conn[c].pc = "anchored"
  /\ tasks' = AttachLegacy(projects, conn[c].project, conn[c].user).tasks
  /\ last' = Response("listProjects", conn[c].user, conn[c].project, NULL,
                      AttachLegacy(projects, conn[c].project, conn[c].user).code, NoBody)
  /\ conn' = [conn EXCEPT ![c] = IdleConn]
  /\ UNCHANGED <<nextTaskId, projects, nextProjectId, members, sweepVars, edited, schedVars, extraVars>>

TxNext ==
  \/ \E c \in Conns, u \in Users : CreateProjectBegin(c, u)
  \/ \E c \in Conns, u \in Users : ListProjectsBegin(c, u)
  \/ \E c \in Conns : TxInsertProject(c)
  \/ \E c \in Conns : TxInsertMember(c)
  \/ \E c \in Conns : TxCommit(c)
  \/ \E c \in Conns : TxRollback(c)
  \/ \E c \in Conns : ListProjectsEnd(c)
  \/ \E u \in Users, p \in ProjectIds, e \in Emails : AddProjectMember(u, p, e)
  \/ \E u \in Users, p \in ProjectIds, m \in Users : RemoveProjectMember(u, p, m)
  \/ \E u \in Users, p \in ProjectIds : DeleteProject(u, p)

SpecTx == Init /\ [][TxNext]_vars

\* ---- one pass over several candidates ----
\* the requests that make the tasks ones the sweep selects
PassRequests ==
  \/ \E u \in SeedUsers : ListProjects(u)
  \/ \E u \in SeedUsers, id \in PassTaskIds, b \in SweepPatches :
       KeysOf(b) = {"dueDate"} /\ UpdateTask(u, id, b)

PassSteps ==
  \/ \E s \in Sweeps : SweepSend(s)
  \/ \E s \in Sweeps : SweepSendThrows(s)
  \/ \E s \in Sweeps : SweepStamp(s)
  \/ \E s \in Sweeps : SweepReturn(s)

PassInit == StoreInit({PassTasks}) /\ emailEnabled = TRUE /\ server = "listening"

PassNext ==
  \/ \E s \in Sweeps : (\A r \in Sweeps : sweeps[r] = IdleSweep) /\ RunTaskReminderSweep(s)
  \/ PassSteps
  \/ PassRequests

SpecPass == PassInit /\ [][PassNext]_vars

\* ---- handlers statement by statement: register, addProjectMember, removeProjectMember ----
\* register: findUserByEmail; an account there is answers 409
RegisterBegin(c, email) ==
  /\ conn[c] = IdleConn
  /\ IF findUserByEmail(email) # NULL
       THEN /\ last' = Response("register", NULL, NULL, email, 409, NoBody)
            /\ UNCHANGED conn
       ELSE /\ conn' = [conn EXCEPT ![c] = [op |-> "register", pc |-> "checked",
                                            user |-> NULL, project |-> NULL, arg |-> email]]
            /\ UNCHANGED last
  /\ UNCHANGED <<tasks, nextTaskId, projects, nextProjectId, members, sweepVars, edited,
                 schedVars, extraVars>>

\* register: INSERT INTO users; users.email is UNIQUE, and the error of the
\* store is no HttpError: errorHandler answers 500
RegisterInsert(c) ==
  /\ conn[c].op = "register" /\ conn[c].pc = "checked"
  /\ IF findUserByEmail(conn[c].arg) # NULL
       THEN /\ last' = Response("register", NULL, NULL, conn[c].arg, 500, NoBody)
            /\ UNCHANGED registered
       ELSE /\ last' = Response("register", NULL, NULL, conn[c].arg, 201, NoBody)
            /\ registered' = registered \cup {conn[c].arg}
  /\ conn' = [conn EXCEPT ![c] = IdleConn]
  /\ UNCHANGED <<tasks, nextTaskId, projects, nextProjectId, members, sweepVars, edited,
                 schedVars, failed, raced>>

\* addProjectMember up to its INSERT: requireProjectOwner, findUserByEmail
AddMemberBegin(c, userId, projectId, email) ==
  /\ conn[c] = IdleConn
  /\ LET owner == requireProjectOwner(projectId, userId)
         targetUser == findUserByEmail(email)
         code == IF owner.code # 200 THEN owner.code
                 ELSE IF targetUser = NULL THEN 404
                 ELSE IF targetUser = userId THEN 400
                 ELSE 200
     IN  IF code # 200
           THEN /\ last' = Response("addMember", userId, projectId, email, code, NoBody)
                /\ UNCHANGED conn
           ELSE /\ conn' = [conn EXCEPT ![c] = [op |-> "addMember", pc |-> "checked",
                                                user |-> userId, project |-> projectId,
                                                arg |-> targetUser]]
                /\ UNCHANGED last
  /\ UNCHANGED <<tasks, nextTaskId, projects, nextProjectId, members, sweepVars, edited,
                 schedVars, extraVars>>

\* addProjectMember: INSERT ... ON CONFLICT (project_id, user_id) DO NOTHING;
\* no row returned answers 409; project_id REFERENCES projects(id)
AddMemberInsert(c) ==
  /\ conn[c].op = "addMember" /\ conn[c].pc = "checked"
  /\ IF conn[c].project \notin DOMAIN projects
       THEN /\ last' = Response("addMember", conn[c].user, conn[c].project, conn[c].arg, 500, NoBody)
            /\ UNCHANGED members
     ELSE IF MemberIndexes(conn[c].project, conn[c].arg) # {}
       THEN /\ last' = Response("addMember", conn[c].user, conn[c].project, conn[c].arg, 409, NoBody)
            /\ UNCHANGED members
     ELSE /\ last' = Response("addMember", conn[c].user, conn[c].project, conn[c].arg, 201, NoBody)
          /\ members' = Append(members, MemberRow(conn[c].project, conn[c].arg, "member"))
  /\ conn' = [conn EXCEPT ![c] = IdleConn]
  /\ UNCHANGED <<tasks, nextTaskId, projects, nextProjectId, sweepVars, edited,
                 schedVars, extraVars>>

\* removeProjectMember up to its DELETE: requireProjectOwner, the SELECT of the
\* member's row, the COUNT of the member's open tasks
RemoveMemberBegin(c, userId, projectId, memberId) ==
  /\ conn[c] = IdleConn
  /\ LET r == removeProjectMember(projectId, memberId, userId)
     IN  IF r.code # 204
           THEN /\ last' = Response("removeMember", userId, projectId, memberId, r.code, NoBody)
                /\ UNCHANGED conn
           ELSE /\ conn' = [conn EXCEPT ![c] = [op |-> "removeMember", pc |-> "counted",
                                                user |-> userId, project |-> projectId,
                                                arg |-> memberId]]
                /\ UNCHANGED last
  /\ UNCHANGED <<tasks, nextTaskId, projects, nextProjectId, members, sweepVars, edited,
                 schedVars, extraVars>>

\* removeProjectMember: DELETE FROM project_members WHERE project_id = $1 AND user_id = $2
RemoveMemberEnd(c) ==
  /\ conn[c].op = "removeMember" /\ conn[c].pc = "counted"
  /\ members' = Without(members, {m \in Range(members) :
                                    m.project_id = conn[c].project /\ m.user_id = conn[c].arg})
  /\ last' = Response("removeMember", conn[c].user, conn[c].project, conn[c].arg, 204, NoBody)
  /\ conn' = [conn EXCEPT ![c] = IdleConn]
  /\ UNCHANGED <<tasks, nextTaskId, projects, nextProjectId, sweepVars, edited,
                 schedVars, extraVars>>

\* registrations and invitations that run at the same time, in the project of
\* a user who has listed projects
RaceInit == StoreInit({0}) /\ emailEnabled = FALSE /\ server = "listening"

RaceNext ==
  \/ \E c \in Handlers, e \in Emails : RegisterBegin(c, e)
  \/ \E c \in Handlers : RegisterInsert(c)
  \/ \E c \in Handlers, u \in Users, p \in ProjectIds, e \in Emails : AddMemberBegin(c, u, p, e)
  \/ \E c \in Handlers : AddMemberInsert(c)
  \/ \E u \in SeedUsers : ListProjects(u)

SpecRace == RaceInit /\ [][RaceNext]_vars

\* first accesses that run at the same time
FirstNext ==
  \/ \E c \in Handlers, u \in Users : ListProjectsBegin(c, u)
  \/ \E c \in Handlers : TxInsertProject(c)
  \/ \E c \in Handlers : TxInsertMember(c)
  \/ \E c \in Handlers : TxCommit(c)
  \/ \E c \in Handlers : ListProjectsEnd(c)

SpecFirst == Init /\ [][FirstNext]_vars

\* the requests that reopen a task
StatusPatches == {b \in Bodies : KeysOf(b) = {"status"}}

\* a removal that runs while the owner of the project works on its tasks
RevokeInit == StoreInit({SweepTasks}) /\ emailEnabled = FALSE /\ server = "listening"

RevokeNext ==
  \/ \E c \in Handlers, u \in Users, p \in ProjectIds, m \in Users : RemoveMemberBegin(c, u, p, m)
  \/ \E c \in Handlers : RemoveMemberEnd(c)
  \/ \E u \in SeedUsers : ListProjects(u)
  \/ \E u \in Users, p \in ProjectIds, e \in Emails : AddProjectMember(u, p, e)
  \/ \E u \in SeedUsers, id \in SweepTaskIds, b \in StatusPatches : UpdateTask(u, id, b)

SpecRevoke == RevokeInit /\ [][RevokeNext]_vars

\* ---- jobs/taskReminder: the scheduler, and start() of the server ----
POLL_INTERVAL_MS == HOUR

\* what every step of the scheduler leaves alone
storeVars == <<tasks, nextTaskId, projects, nextProjectId, members, conn, edited, registered, raced>>

\* runTaskReminderSweep() called and not awaited: with the transport configured
\* the call runs up to its query, in a slot of its own; without, it returns
VoidRunTaskReminderSweep ==
  IF emailEnabled THEN \E s \in Sweeps : SweepQuery(s) ELSE UNCHANGED sweeps

\* runTaskReminderSweep() called and not awaited, the store unavailable: the
\* query of line 104 throws, the catch of line 118 logs it, the call returns
VoidRunTaskReminderSweepThrows ==
  /\ emailEnabled
  /\ Cardinality(failed) < MaxFailures
  /\ failed' = failed \cup {now + LOOKAHEAD_MS}
  /\ UNCHANGED sweeps

\* startTaskReminderScheduler without the check of its lines 131-134
StartTaskReminderSchedulerUnchecked ==
  /\ server = "listening"
  /\ last' = Response("startTaskReminderScheduler", NULL, NULL, NULL, 0, NoBody)
  /\ IF schedulerStarted
       THEN UNCHANGED <<schedulerStarted, schedulerHandle, sweeps>>
       ELSE /\ schedulerStarted' = TRUE
            /\ VoidRunTaskReminderSweep
            /\ schedulerHandle' = now + POLL_INTERVAL_MS
  /\ UNCHANGED <<storeVars, server, now, emailEnabled, sent, bounced, lost, failed>>

StartTaskReminderScheduler ==
  /\ server = "listening"
  /\ last' = Response("startTaskReminderScheduler", NULL, NULL, NULL, 0, NoBody)
  /\ IF schedulerStarted \/ ~emailEnabled
       THEN UNCHANGED <<schedulerStarted, schedulerHandle, sweeps>>
       ELSE /\ schedulerStarted' = TRUE
            /\ VoidRunTaskReminderSweep
            /\ schedulerHandle' = now + POLL_INTERVAL_MS
  /\ UNCHANGED <<storeVars, server, now, emailEnabled, sent, bounced, lost, failed>>

\* startTaskReminderScheduler with a first pass whose query throws
StartTaskReminderSchedulerThrows ==
  /\ server = "listening"
  /\ ~schedulerStarted /\ emailEnabled
  /\ last' = Response("startTaskReminderScheduler", NULL, NULL, NULL, 0, NoBody)
  /\ schedulerStarted' = TRUE
  /\ VoidRunTaskReminderSweepThrows
  /\ schedulerHandle' = now + POLL_INTERVAL_MS
  /\ UNCHANGED <<storeVars, server, now, emailEnabled, sent, bounced, lost>>

\* the callback of setInterval, with a pass that has no catch of its own: the
\* rejection of its query is unhandled and ends the process
TimerFiresUncaught ==
  /\ server = "listening"
  /\ schedulerHandle # NULL /\ now >= schedulerHandle
  /\ emailEnabled
  /\ failed' = failed \cup {now + LOOKAHEAD_MS}
  /\ server' = "exited"
  /\ UNCHANGED <<storeVars, last, schedulerStarted, schedulerHandle, now, emailEnabled,
                 sweeps, sent, bounced, lost>>

\* the callback of setInterval, with a pass whose query throws
TimerFiresThrows ==
  /\ server = "listening"
  /\ schedulerHandle # NULL /\ now >= schedulerHandle
  /\ VoidRunTaskReminderSweepThrows
  /\ schedulerHandle' = schedulerHandle + POLL_INTERVAL_MS
  /\ UNCHANGED <<storeVars, last, server, schedulerStarted, now, emailEnabled,
                 sent, bounced, lost>>

\* the callback of setInterval
TimerFires ==
  /\ server = "listening"
  /\ schedulerHandle # NULL /\ now >= schedulerHandle
  /\ VoidRunTaskReminderSweep
  /\ schedulerHandle' = schedulerHandle + POLL_INTERVAL_MS
  /\ UNCHANGED <<storeVars, last, server, schedulerStarted, now, emailEnabled,
                 sent, bounced, lost, failed>>

StopTaskReminderScheduler ==
  /\ server = "listening"
  /\ IF schedulerHandle # NULL
       THEN schedulerHandle' = NULL /\ schedulerStarted' = FALSE
       ELSE UNCHANGED <<schedulerStarted, schedulerHandle>>
  /\ UNCHANGED <<storeVars, last, server, sweepVars, failed>>

\* a call of runTaskReminderSweep without the transport: it returns at line 96
RunTaskReminderSweepDisabled ==
  /\ server = "listening"
  /\ ~emailEnabled
  /\ last' = Response("runTaskReminderSweep", NULL, NULL, NULL, 0, NoBody)
  /\ UNCHANGED <<storeVars, sweepVars, schedVars, failed>>

\* start(): bootstrapDatabase resolved, app.listen
StartListen ==
  /\ server = "boot"
  /\ server' = "listening"
  /\ UNCHANGED <<storeVars, last, sweepVars, schedulerStarted, schedulerHandle, failed>>

\* start(): bootstrapDatabase rejected, process.exit(1)
StartFails ==
  /\ server = "boot"
  /\ server' = "exited"
  /\ UNCHANGED <<storeVars, last, sweepVars, schedulerStarted, schedulerHandle, failed>>

\* the requests that make the task one the sweep selects
SchedRequests ==
  \/ \E u \in SeedUsers : ListProjects(u)
  \/ \E u \in SeedUsers, id \in SweepTaskIds, b \in SweepPatches :
       KeysOf(b) = {"dueDate"} /\ UpdateTask(u, id, b)

\* the steps of a pass in which no statement throws
SchedSteps ==
  \/ \E s \in Sweeps : SweepSend(s)
  \/ \E s \in Sweeps : SweepStamp(s)
  \/ \E s \in Sweeps : SweepReturn(s)
  \/ Tick

SchedInit == StoreInit({SweepTasks}) /\ emailEnabled \in BOOLEAN /\ server = "boot"

SchedNext ==
  \/ StartListen
  \/ StartFails
  \/ StartTaskReminderScheduler
  \/ StopTaskReminderScheduler
  \/ TimerFires
  \/ RunTaskReminderSweepDisabled
  \/ server = "listening" /\ SchedSteps
  \/ server = "listening" /\ SchedRequests

SpecSched == SchedInit /\ [][SchedNext]_vars

\* the scheduler of a server that is up, with a store that may be unavailable
\* when a pass sends its query
FailInit == StoreInit({SweepTasks}) /\ emailEnabled = TRUE /\ server = "listening"

FailNext ==
  \/ StartTaskReminderScheduler
  \/ StartTaskReminderSchedulerThrows
  \/ TimerFires
  \/ TimerFiresThrows
  \/ SchedSteps
  \/ SchedRequests

SpecFail == FailInit /\ [][FailNext]_vars

\* ==== the claims ====
IsMember(userId, projectId) == MemberIndexes(projectId, userId) # {}

\* the request bodies the claims range over
ClaimBodies == {b \in Bodies : Cardinality(KeysOf(b)) <= 2}

\* C1: for every task, completedAt is non-null if and only if status is DONE,
\* in every state that create, update and delete reach.
C1_CompletedIffDone ==
  \A id \in DOMAIN tasks : (tasks[id].completed_at # NULL) <=> (tasks[id].status = "DONE")

\* C2: an update that would move a task into DONE, issued by a caller who is a
\* member but not the owner of the task's project, fails with 403 and leaves the
\* task as it was.
C2_OwnerGate ==
  \A id \in DOMAIN tasks, u \in Users, b \in ClaimBodies :
    ( /\ b.status = "DONE"
      /\ tasks[id].status # "DONE"
      /\ IsMember(u, tasks[id].project_id)
      /\ findProjectMembership(tasks[id].project_id, u).role # "owner" )
    => /\ updateTask(id, b, u).code = 403
       /\ updateTask(id, b, u).tasks = tasks

NotVisible(userId, id) ==
  /\ tasks[id].user_id # userId
  /\ tasks[id].assignee_id # userId
  /\ ~IsMember(userId, tasks[id].project_id)

\* C3: for a task T and a user U who is not T's creator, not its assignee and
\* not a member of its project, get, update (with a body the schema accepts) and
\* delete fail with 404 or 403, return no field of T and leave the tasks table
\* as it was.
C3_MembershipGate ==
  \A id \in DOMAIN tasks, u \in Users :
    NotVisible(u, id) =>
      /\ getTask(id, u).code \in {403, 404}
      /\ getTask(id, u).body = NoBody
      /\ deleteTask(id, u).code \in {403, 404}
      /\ deleteTask(id, u).tasks = tasks
      /\ \A b \in ClaimBodies :
           /\ updateTask(id, b, u).tasks = tasks
           /\ updateTaskSchema(b).ok => updateTask(id, b, u).code \in {403, 404}

\* C3, its case: such a user has asked to delete the task, got 404, and the
\* task is still there.
C3_Witness ==
  /\ last.op = "delete" /\ last.code = 404
  /\ last.id \in DOMAIN tasks
  /\ NotVisible(last.user, last.id)

\* C4: an update whose body carries a projectId other than the task's own
\* fails with 400 and leaves the task's projectId as it was (for the callers
\* the task is visible to).
C4_NoProjectMove ==
  \A id \in DOMAIN tasks, u \in Users, b \in ClaimBodies :
    ( /\ findTaskById(id, u) # NoTask
      /\ tasks[id].project_id # NULL
      /\ b.projectId # Absent
      /\ b.projectId # tasks[id].project_id )
    => /\ updateTask(id, b, u).code = 400
       /\ updateTask(id, b, u).tasks[id].project_id = tasks[id].project_id

OwnerRows(projectId) ==
  {i \in 1..Len(members) :
     members[i].project_id = projectId /\ normalizeRole(members[i].role) = "owner"}

\* C5: project creation is all or nothing: a project row is in the table only
\* together with the owner membership row of its creator, a membership row only
\* with its project row, and a transaction that failed (500) has left neither
\* its project row nor a membership row of it.
C5_AtomicBootstrap ==
  /\ \A p \in DOMAIN projects :
       \E i \in OwnerRows(p) : members[i].user_id = projects[p].owner_id
  /\ \A i \in 1..Len(members) : members[i].project_id \in DOMAIN projects
  /\ (last.code = 500 /\ last.op \in {"createProject", "listProjects"} /\ last.id # NULL)
       => /\ last.id \notin DOMAIN projects
          /\ \A i \in 1..Len(members) : members[i].project_id # last.id

\* C5, its case: createProject failed after its project insert, and another
\* project was committed.
C5_Witness ==
  /\ last.op = "createProject" /\ last.code = 500 /\ last.id # NULL
  /\ DOMAIN projects # {}

\* C6: every existing project has exactly one membership row with role owner,
\* and it is the row of the project's owner_id.
C6_OneOwner ==
  \A p \in DOMAIN projects :
    /\ Cardinality(OwnerRows(p)) = 1
    /\ \A i \in OwnerRows(p) : members[i].user_id = projects[p].owner_id

\* C6, its case: a project with a second member, whose owner has just asked to
\* remove their own membership.
C6_Witness ==
  /\ last.op = "removeMember" /\ last.code = 400
  /\ last.id \in DOMAIN projects
  /\ last.arg = projects[last.id].owner_id
  /\ \E u \in Users : u # last.arg /\ IsMember(u, last.id)

\* C10: removeMember, asked by the project's owner for a member M: 400 when M
\* is the owner, 409 when M is assigned a task of the project that is not DONE,
\* 204 otherwise and then exactly M's row is gone; asked by anyone else, or
\* failing, it leaves the memberships as they were.
C10_RemoveMember ==
  \A p \in ProjectIds, u \in Users, m \in Users :
    LET r == removeProjectMember(p, m, u)
        isOwner == p \in DOMAIN projects /\ IsMember(u, p)
                     /\ findProjectMembership(p, u).role = "owner"
    IN  /\ r.code = 204 => isOwner /\ m # u /\ activeAssignments(p, m) = 0
        /\ r.code # 204 => r.members = members
        /\ ~isOwner => r.code \in {403, 404}
        /\ isOwner /\ m = u => r.code = 400
        /\ isOwner /\ m # u /\ IsMember(m, p) /\ activeAssignments(p, m) > 0 => r.code = 409
        /\ isOwner /\ m # u /\ IsMember(m, p) /\ activeAssignments(p, m) = 0
             => /\ r.code = 204
                /\ Range(r.members) = Range(members) \ {MemberRow(p, m, "member")}

\* C10, its case: the owner has asked to remove a member who holds an open
\* task of the project, and got 409.
C10_Witness ==
  /\ last.op = "removeMember" /\ last.code = 409
  /\ IsMember(last.arg, last.id)
  /\ activeAssignments(last.id, last.arg) > 0

Stamped(id) == id \in DOMAIN tasks /\ tasks[id].reminder_sent_at # NULL

C8_AtMostOneSend ==
  \A id \in SweepTaskIds : (id \notin lost /\ id \notin edited) => sent[id] <= 1

\* C9: every update that succeeds and changes the task's due_date leaves the
\* task's reminder_sent_at null.
C9_EditClearsStamp ==
  \A id \in DOMAIN tasks, u \in Users, b \in SweepPatches :
    LET r == updateTask(id, b, u)
    IN  (r.code = 200 /\ r.tasks[id].due_date # tasks[id].due_date)
          => r.tasks[id].reminder_sent_at = NULL

IsOwner(userId, projectId) ==
  /\ projectId \in DOMAIN projects
  /\ IsMember(userId, projectId)
  /\ findProjectMembership(projectId, userId).role = "owner"

\* C11: addMember adds a membership only when the caller is the project's
\* owner, the email has an account, the target is not the caller and not yet a
\* member; otherwise it fails (403 for a caller who is not the owner, 404
\* without an account or without the project, 400 for the caller's own email,
\* 409 for a member) and the memberships stay as they were; the row it adds is
\* the target's, with role member.
C11_AddMember ==
  \A p \in ProjectIds, u \in Users, e \in Emails :
    LET r == addProjectMember(p, e, u)
        target == findUserByEmail(e)
    IN  /\ r.code \in {201, 400, 403, 404, 409}
        /\ r.code = 201 <=> /\ IsOwner(u, p)
                            /\ target # NULL /\ target # u
                            /\ ~IsMember(target, p)
        /\ r.code = 201 => r.members = Append(members, MemberRow(p, target, "member"))
        /\ r.code # 201 => r.members = members
        /\ p \in DOMAIN projects /\ ~IsOwner(u, p) => r.code = 403
        /\ p \notin DOMAIN projects => r.code = 404
        /\ IsOwner(u, p) /\ target = NULL => r.code = 404
        /\ IsOwner(u, p) /\ target = u => r.code = 400
        /\ IsOwner(u, p) /\ target \notin {NULL, u} /\ IsMember(target, p) => r.code = 409

\* C11, its case: the owner has asked to add a user who is a member already,
\* and got 409.
C11_Witness ==
  /\ last.op = "addMember" /\ last.code = 409
  /\ IsOwner(last.user, last.id)
  /\ findUserByEmail(last.arg) # last.user
  /\ Cardinality(MemberIndexes(last.id, findUserByEmail(last.arg))) = 1

\* C12: deleteProject succeeds exactly for a caller with role owner in the
\* project; then the project, its membership rows and its tasks are gone and
\* the rows of every other project (and the tasks of no project) are as they
\* were; for any other caller it fails and nothing is deleted.
C12_DeleteProject ==
  \A p \in ProjectIds, u \in Users :
    LET r == deleteProject(p, u)
    IN  /\ r.code = 204 <=> IsOwner(u, p)
        /\ r.code # 204 =>
             /\ r.code \in {403, 404}
             /\ r.projects = projects /\ r.members = members /\ r.tasks = tasks
        /\ r.code = 204 =>
             /\ DOMAIN r.projects = DOMAIN projects \ {p}
             /\ \A q \in DOMAIN r.projects : r.projects[q] = projects[q]
             /\ \A i \in 1..Len(r.members) : r.members[i].project_id # p
             /\ r.members = SelectSeq(members, LAMBDA m : m.project_id # p)
             /\ DOMAIN r.tasks = {id \in DOMAIN tasks : tasks[id].project_id # p}
             /\ \A id \in DOMAIN r.tasks : r.tasks[id] = tasks[id]

\* C12, its case: an owner has deleted a project, the one task there was is
\* gone, and another project still has its two members.
C12_Witness ==
  /\ last.op = "deleteProject" /\ last.code = 204
  /\ last.id \notin DOMAIN projects
  /\ nextTaskId > 1 /\ DOMAIN tasks = {}
  /\ \E q \in DOMAIN projects :
       Cardinality({i \in 1..Len(members) : members[i].project_id = q}) = 2

\* C13: requireMember fails with 404 when the project does not exist, whoever
\* calls; with 403 when it exists and the caller has no membership row; else it
\* returns the caller's membership row.  requireOwner does the same and fails
\* with 403 as well when the role of that row is not owner.
C13_RequireMember ==
  \A p \in ProjectIds, u \in Users :
    LET m == requireProjectMember(p, u)
        o == requireProjectOwner(p, u)
        mine == {row \in Range(members) : row.project_id = p /\ row.user_id = u}
    IN  /\ p \notin DOMAIN projects => m.code = 404 /\ o.code = 404
        /\ p \in DOMAIN projects /\ mine = {} => m.code = 403 /\ o.code = 403
        /\ p \in DOMAIN projects /\ mine # {} =>
             /\ m.code = 200
             /\ m.membership \in mine
             /\ \A row \in mine : row.role # "owner" => o.code = 403
             /\ \A row \in mine : row.role = "owner" => o.code = 200 /\ o.membership = row
        /\ m.code # 200 => m.membership = NoMembership
        /\ o.code # 200 => o.membership = NoMembership

\* C13, its case: a member who is not the owner has asked to delete the
\* project and got 403, after a request for a project that does not exist any
\* more could get 404.
C13_Witness ==
  /\ last.op = "deleteProject" /\ last.code = 403
  /\ last.id \in DOMAIN projects
  /\ IsMember(last.user, last.id)
  /\ ~IsOwner(last.user, last.id)
  /\ \E p \in ProjectIds : p < nextProjectId /\ p \notin DOMAIN projects

\* the tasks the spec lets a user see
Visible(userId, id) ==
  \/ tasks[id].user_id = userId
  \/ tasks[id].assignee_id = userId
  \/ IsMember(userId, tasks[id].project_id)

\* C14: list returns exactly the tasks of which the user is creator, assignee
\* or member of the project, narrowed by the status, search and projectId
\* filters given (once every task has the project the spec requires it to have).
C14_ListVisible ==
  \A u \in Users, q \in ListQueries :
    (\A id \in DOMAIN tasks : tasks[id].project_id # NULL) =>
    listTasks(q, u).rows =
      {id \in DOMAIN tasks :
         /\ Visible(u, id)
         /\ q.status # "ABSENT" => tasks[id].status = q.status
         /\ q.search # Absent => ILIKE(tasks[id], q.search)
         /\ q.projectId # Absent => tasks[id].project_id = q.projectId}

\* C15: for a task that exists and that the caller is neither creator, assignee
\* nor project member of, get answers what it answers for an id no task has:
\* the same code, the same message, no field of the task.
C15_GetHidesExistence ==
  \A u \in Users, id \in DOMAIN tasks :
    NotVisible(u, id) =>
      /\ getTask(id, u) = getTask(nextTaskId, u)
      /\ getTask(id, u).code = 404

\* C15, its case: such a caller has asked for the task, which exists, and got
\* 404 without a body.
C15_Witness ==
  /\ last.op = "get" /\ last.code = 404 /\ last.body = NoBody
  /\ last.id \in DOMAIN tasks
  /\ NotVisible(last.user, last.id)
  /\ tasks[last.id].project_id # NULL

\* the create bodies the claims range over: the required keys and one more
ClaimCreateBodies ==
  {b \in Bodies : /\ {"title", "description"} \subseteq KeysOf(b)
                  /\ Cardinality(KeysOf(b)) <= 3}

\* C16: create by a caller who is no member of the project the body names, and
\* update (with a body the schema accepts) by a caller who holds no membership
\* in the task's project, creator or assignee of the task though they be, fail
\* with 403 and write nothing.
C16_MutationNeedsMembership ==
  /\ \A u \in Users, b \in ClaimCreateBodies :
       (b.projectId \in DOMAIN projects /\ ~IsMember(u, b.projectId)) =>
         /\ createTask(b, u).code = 403
         /\ createTask(b, u).tasks = tasks
  /\ \A u \in Users, id \in DOMAIN tasks, b \in ClaimBodies :
       ( /\ tasks[id].project_id # NULL
         /\ ~IsMember(u, tasks[id].project_id)
         /\ u \in {tasks[id].user_id, tasks[id].assignee_id}
         /\ updateTaskSchema(b).ok ) =>
         /\ updateTask(id, b, u).code = 403
         /\ updateTask(id, b, u).tasks = tasks

\* create bodies that name a project and an assignee
AssignBodies ==
  {b \in Bodies : KeysOf(b) = {"title", "description", "projectId", "assigneeId"}}

\* C17: create or update by a member of the project, with an assigneeId that
\* is a user without membership in that project, fails with 400; no task is
\* created, the task's assignee stays as it was.
C17_AssigneeIsMember ==
  /\ \A u \in Users, b \in AssignBodies :
       ( /\ b.projectId \in DOMAIN projects
         /\ IsMember(u, b.projectId)
         /\ b.assigneeId \in Users
         /\ ~IsMember(b.assigneeId, b.projectId) ) =>
         /\ createTask(b, u).code = 400
         /\ createTask(b, u).tasks = tasks
  /\ \A u \in Users, id \in DOMAIN tasks, b \in ClaimBodies :
       ( /\ findTaskById(id, u) # NoTask
         /\ tasks[id].project_id # NULL
         /\ IsMember(u, tasks[id].project_id)
         /\ b.assigneeId \in Users
         /\ ~IsMember(b.assigneeId, tasks[id].project_id) ) =>
         /\ updateTask(id, b, u).code = 400
         /\ updateTask(id, b, u).tasks[id].assignee_id = tasks[id].assignee_id

\* C18: without a configured mail transport the scheduler never starts
\* (startTaskReminderScheduler sets no timer and leaves schedulerStarted false),
\* no call of runTaskReminderSweep reaches its query, no reminder is sent and
\* no reminder_sent_at is stamped.
C18_DisabledNeverSends ==
  ~emailEnabled =>
    /\ ~schedulerStarted
    /\ schedulerHandle = NULL
    /\ \A s \in Sweeps : sweeps[s] = IdleSweep
    /\ \A id \in SweepTaskIds : sent[id] = 0
    /\ \A id \in DOMAIN tasks : tasks[id].reminder_sent_at = NULL

\* C18, its case: startTaskReminderScheduler has been called without the
\* transport, at a time when the table holds a task the query would select.
C18_Witness ==
  /\ ~emailEnabled
  /\ last.op = "startTaskReminderScheduler"
  /\ REMINDER_QUERY(now + LOOKAHEAD_MS, now + LOOKAHEAD_MS + WINDOW_MS) # {}

\* C19: with the transport configured, the step of start() that brings the
\* server up starts the scheduler: the timer is set and a first pass is running.
C19_StartupStartsScheduler ==
  [][(server = "boot" /\ server' = "listening" /\ emailEnabled)
       => /\ schedulerStarted'
          /\ schedulerHandle' # NULL
          /\ \E s \in Sweeps : sweeps'[s].pc # "idle"]_vars

\* C20: a call of ensureProjectBaselineForUser for a user who already has a
\* membership is a no-op: it creates no project and no membership and changes
\* no task.
C20_BaselineNoOp ==
  \A u \in Users :
    Anchor(members, u) # NULL =>
      LET base == ensureProjectBaselineForUser(u)
      IN  /\ ~base.created
          /\ base.projects = projects
          /\ base.members = members
          /\ base.tasks = tasks

\* the conditions the spec puts on a task a pass selects, with the window of
\* the pass that starts at windowStart (both ends taken in)
Eligible(id, windowStart) ==
  /\ tasks[id].assignee_id # NULL
  /\ tasks[id].due_date # NULL
  /\ tasks[id].reminder_sent_at = NULL
  /\ tasks[id].completed_at = NULL
  /\ tasks[id].status # "DONE"
  /\ tasks[id].due_date >= windowStart
  /\ tasks[id].due_date <= windowStart + WINDOW_MS

\* the ids of the rows a pass holds
RowIds(sweep) == {sweep.rows[i].id : i \in DOMAIN sweep.rows}

\* a mail goes out only for the row a pass is at
SendsOnlySelected ==
  \A id \in SweepTaskIds :
    sent'[id] > sent[id] =>
      \E s \in Sweeps : /\ sweeps[s].pc = "loop" /\ sweeps[s].rows # <<>>
                       /\ Head(sweeps[s].rows).id = id

C23_HalfOpenWindow ==
  \A s \in Sweeps : \A i \in DOMAIN sweeps[s].rows :
    /\ sweeps[s].rows[i].due_date >= sweeps[s].windowStart
    /\ sweeps[s].rows[i].due_date < sweeps[s].windowStart + WINDOW_MS

\* C27: when a pass mails the reminder of a row, the task of that row exists,
\* is not DONE and has the assignee and the due date the pass selected it with.
C27_SendSeesCurrentTask ==
  [][\A s \in Sweeps :
       (sweeps[s].pc = "loop" /\ sweeps'[s].pc = "stamp") =>
         LET row == Head(sweeps[s].rows)
         IN  /\ row.id \in DOMAIN tasks
             /\ tasks[row.id].status # "DONE"
             /\ tasks[row.id].due_date = row.due_date
             /\ tasks[row.id].assignee_id = row.assignee_email]_vars

\* C30: a call of ensureProjectBaselineForUser changes the project_id of a task
\* only from null, only for a task the user created, and only to a project the
\* user owns.
C30_AttachesToOwnProject ==
  \A u \in Users :
    LET base == ensureProjectBaselineForUser(u)
    IN  \A id \in DOMAIN tasks :
          base.tasks[id].project_id # tasks[id].project_id =>
            /\ tasks[id].project_id = NULL
            /\ tasks[id].user_id = u
            /\ base.projects[base.tasks[id].project_id].owner_id = u

\* C28: once the update of due_date that came between a pass's send and its
\* stamp for the task and that stamp are both done, the task's
\* reminder_sent_at is null: the task can be selected again.
C28_EditNotLost ==
  \A id \in raced :
    ( /\ id \in DOMAIN tasks
      /\ \A s \in Sweeps : ~(sweeps[s].pc = "stamp" /\ Head(sweeps[s].rows).id = id) )
    => tasks[id].reminder_sent_at = NULL

\* C24: a send that fails leaves the tasks table and the other candidates of
\* the pass as they were: the pass goes on with the rows that remain; rows
\* leave a pass one by one, after their mail was sent or refused; a pass ends
\* when no row remains; and only a task whose mail was sent is stamped.
C24_FailureIsolated ==
  /\ [](\A id \in DOMAIN tasks : tasks[id].reminder_sent_at # NULL => sent[id] >= 1)
  /\ [][\A s \in Sweeps :
          /\ ( /\ sweeps[s].pc = "loop" /\ sweeps[s].rows # <<>>
               /\ sweeps'[s] # sweeps[s] /\ sweeps'[s].pc # "stamp" )
             => /\ tasks' = tasks /\ sent' = sent
                /\ sweeps'[s].pc = "loop"
                /\ sweeps'[s].rows = Tail(sweeps[s].rows)
                /\ Head(sweeps[s].rows).id \in bounced'
          /\ (sweeps[s] # IdleSweep /\ sweeps'[s] = IdleSweep) => sweeps[s].rows = <<>>
          /\ (sweeps[s].pc = "stamp" /\ sweeps'[s] # sweeps[s])
             => sweeps'[s].rows = Tail(sweeps[s].rows) /\ sweeps'[s].pc = "loop"]_vars

\* C24, its case: the mail of the first candidate of a pass was refused, that
\* task has no stamp, and the pass has sent the mail of its second candidate.
C24_Witness ==
  \E s \in Sweeps, id \in bounced :
    /\ sweeps[s].pc = "stamp" /\ Len(sweeps[s].rows) = 1
    /\ Head(sweeps[s].rows).id # id
    /\ sent[Head(sweeps[s].rows).id] = 1
    /\ sent[id] = 0
    /\ id \in DOMAIN tasks
    /\ Eligible(id, sweeps[s].windowStart)

\* C25: the step in which the candidate query of a pass throws leaves the
\* process running and the timer installed, mails nothing, stamps nothing and
\* leaves no pass behind.
C25_SweepFailureContained ==
  [][failed' # failed =>
       /\ server' = "listening"
       /\ schedulerStarted' /\ schedulerHandle' # NULL /\ schedulerHandle' > now
       /\ sent' = sent /\ tasks' = tasks
       /\ sweeps' = sweeps]_vars

\* C25, its case: the query of a pass threw, the timer is installed, and a
\* pass of a later tick has selected a task and mailed its reminder.
C25_Witness ==
  /\ schedulerStarted /\ schedulerHandle # NULL
  /\ \E f \in failed, s \in Sweeps :
       /\ sweeps[s].pc = "stamp"
       /\ sweeps[s].windowStart >= f + POLL_INTERVAL_MS

\* C21: a registration or an addMember that meets the row of another one,
\* running at the same time or before, answers 409 and never 500, and no
\* (project, user) pair has two membership rows.
C21_ConflictNot500 ==
  /\ last.op \in {"register", "addMember"} => last.code # 500
  /\ \A p \in ProjectIds, u \in Users : Cardinality(MemberIndexes(p, u)) <= 1

C29_OnePersonalProject ==
  \A u \in Users :
    /\ Cardinality({p \in DOMAIN projects : projects[p].owner_id = u}) <= 1
    /\ Cardinality({i \in 1..Len(members) :
                      members[i].user_id = u /\ members[i].role = "owner"}) <= 1

====
